---- MODULE Spec2Model ----
(***************************************************************************)
(* Model of enhanced_finder: DocumentIndexer (indexer.py) with its SQLite  *)
(* metadata store and FAISS vector index, and the batch indexing loops of  *)
(* DocumentIndexer.index_directory and SimpleIndexingAgent (simple_agents).*)
(*                                                                         *)
(* SQLite is modelled at the level the code uses it: one connection whose  *)
(* statements are visible to its own later reads at once and become        *)
(* durable at conn.commit(); a statement that raises leaves the open       *)
(* transaction open (python's sqlite3 issues no rollback).  The FAISS      *)
(* index lives in memory and reaches the disk only in save_index.          *)
(*                                                                         *)
(* DocumentIndexer.search and the hybrid search of SimpleSearchAgent       *)
(* (simple_agents.py) are modelled over texts that are sequences of        *)
(* characters, with scores in thousandths.  index_file calls gathered on   *)
(* one event loop are coroutines that interleave only where they suspend.  *)
(*                                                                         *)
(* Further parts: the files index_file turns away, the text splitter of    *)
(* the indexer, the search_files tool (mcp_server.py), the staging area    *)
(* (staging.py) with the staged indexing flow and the remove-file command  *)
(* (cli.py), and _filename_search called by itself.                        *)
(***************************************************************************)
EXTENDS Integers, Sequences, FiniteSets, TLC

\* ------------------------------------------------------------------ bounds
MaxMtime   == 2   \* largest modification time, in half seconds
MaxChunks  == 2   \* number of chunks the splitter yields for the longer file
MaxDocId   == 2   \* cap on the AUTOINCREMENT counter of documents.id
MaxK       == 2   \* largest k asked of search
MaxText    == 4   \* longest text given to the splitter, in characters
MaxWindow  == 3   \* largest chunk_size given to the splitter

\* ------------------------------------------------------- program constants
\* indexer.py:135  abs(current_mtime - indexed_mtime) < 1.0, in half seconds
MtimeTolerance == 2
\* indexer.py:215  stats["indexed"] % 100 == 0
SaveEvery == 100

\* ------------------------------------------------------------- file system
FileA == "/d/a.txt"
FileB == "/d/b.txt"
RelA  == "d/a.txt"            \* the relative spelling of FileA (cwd = "/")
Files == {FileA, FileB}
PathStrs == {FileA, FileB, RelA}
ScanDir == "/d"
Rewritten == {FileA}          \* the files the environment rewrites

\* Path.resolve(): the absolute, normalised spelling of a path
Resolve(p) == IF p = RelA THEN FileA ELSE p

VARIABLES
    fs,              \* file -> [mtime, exists]: stat().st_mtime, and whether it is on disk
    pc,              \* "constructed" | "ready": load_or_create_index not yet / already called
    index,           \* self.index: the in-memory FAISS vectors, in slot order
    faiss_file,      \* vector_store_path/faiss.index on disk
    documents,       \* documents table as the connection sees it
    chunks,          \* chunks table as the connection sees it, in rowid order
    doc_seq,         \* sqlite_sequence of documents as the connection sees it
    committed,       \* the durable database: [documents, chunks, doc_seq]
    batch,           \* the running batch loop and its stats
    last,            \* the last call of index_file / remove_file_from_index and its result
    results,         \* the last search call and the list it returned
    tasks,           \* the index_file coroutines in flight on the event loop
    staged_paths,    \* StagingManager.staged_paths
    staging_file     \* the staged_paths that staging.json holds

vars == <<fs, pc, index, faiss_file, documents, chunks, doc_seq, committed, batch, last,
          results, tasks, staged_paths, staging_file>>

NoCall == [op |-> "none", result |-> "none", cause |-> "none"]
NoResults == [op |-> "none", query |-> "", k |-> 0, hits |-> <<>>]
NoTasks == <<>>
\* a step of anything but a search or a coroutine: the list the last search
\* returned is gone, the coroutines and the staging file are not touched
Quiet == /\ results' = NoResults
         /\ UNCHANGED <<tasks, staged_paths, staging_file>>
\* processed, indexed, errors: the stats dict; visited, due, failed: what really
\* happened (files the loop reached, files it had to process, files that failed)
IdleBatch == [op |-> "none", phase |-> "idle", todo |-> <<>>, processed |-> 0,
              indexed |-> 0, errors |-> 0, visited |-> 0, due |-> 0, failed |-> 0]

\* ------------------------------------------------------------------ helpers
Abs(x) == IF x < 0 THEN -x ELSE x

\* SELECT ... FROM documents WHERE file_path = ?
DocsByPath(docs, p) == {d \in docs : d.file_path = p}

\* paths index_file turns away: an extension that is not supported, a file
\* above the size limit, a file below an ignored directory, a file without
\* content and a file of white space, which the splitter gives no chunk
FileExe   == "/e/a.exe"
FileBig   == "/e/big.txt"
FileGit   == "/e/.git/c.txt"
FileEmpty == "/e/none.txt"
FileBlank == "/e/space.txt"
TurnedAway == {FileExe, FileBig, FileGit, FileEmpty, FileBlank}
AllFiles == Files \cup TurnedAway

\* file_path.exists(): stat() raises OSError for a file that is not on disk
Exists(p) == fs[Resolve(p)].exists

\* directory.rglob("*") of the scan directory, in directory order
RGlob(d) ==
    IF d = ScanDir THEN SelectSeq(<<FileA, FileB>>, LAMBDA f : fs[f].exists) ELSE <<>>

\* file_path.suffix.lower(), stat().st_size in MB, the names of file_path.parents
Suffix(p) == IF p = FileExe THEN ".exe" ELSE ".txt"
SizeMb(p) == IF p = FileBig THEN 101 ELSE 1
ParentNames(p) ==
    IF p = FileGit THEN {".git", "e", ""} ELSE IF p \in TurnedAway THEN {"e", ""} ELSE {"d", ""}

\* config.py:17-33
SupportedExtensions ==
    {".pdf", ".txt", ".md", ".doc", ".docx", ".xlsx", ".xls", ".csv", ".json", ".xml",
     ".py", ".js", ".ts", ".html", ".css", ".yaml", ".yml", ".toml", ".ini"}
IgnoredDirectories ==
    {".git", ".svn", ".hg", "__pycache__", ".pytest_cache", "node_modules", ".venv",
     "venv", ".env", "Library/Caches", "Library/Logs", ".Trash", "System",
     "Applications", ".DS_Store"}
MaxFileSizeMb == 100

\* should_index_file: extension, size and ignored-directory checks
ShouldIndexFile(p) ==
    /\ Suffix(p) \in SupportedExtensions
    /\ Exists(p)
    /\ SizeMb(p) <= MaxFileSizeMb
    /\ ParentNames(p) \cap IgnoredDirectories = {}

\* is_file_indexed without the tolerance: any change of mtime counts
IsFileIndexedExact(p) ==
    \E d \in DocsByPath(documents, p) : fs[Resolve(p)].mtime = d.modified_time

\* is_file_indexed: a row for str(file_path) whose mtime is within the tolerance
IsFileIndexed(p) ==
    \E d \in DocsByPath(documents, p) :
        Abs(fs[Resolve(p)].mtime - d.modified_time) < MtimeTolerance

\* text_splitter.split_text(content): the number of chunks of the file's text
NChunks(f) ==
    IF f = FileB THEN MaxChunks ELSE IF f \in {FileEmpty, FileBlank} THEN 0 ELSE 1

\* cap on index.ntotal: room for every file once
MaxVectors == NChunks(FileA) + NChunks(FileB)

\* the vectors of the n chunks of file f: embedding_model.encode(chunks)
Embeddings(f, n) == [i \in 1..n |-> <<f, i - 1>>]

\* a plain INSERT INTO documents on a table without the UNIQUE constraint
InsertDocument(docs, seq, p, mtime, n) ==
    docs \cup {[id |-> seq + 1, file_path |-> p, modified_time |-> mtime, chunk_count |-> n]}

\* INSERT OR REPLACE INTO documents: the row of the same file_path is deleted,
\* the new row gets the next AUTOINCREMENT id
UpsertDocument(docs, seq, p, mtime, n) ==
    (docs \ DocsByPath(docs, p)) \cup
        {[id |-> seq + 1, file_path |-> p, modified_time |-> mtime, chunk_count |-> n]}

\* for i, chunk in enumerate(chunks): INSERT INTO chunks ..., the first k of them
InsertChunks(rows, doc_id, start_idx, k) ==
    rows \o [i \in 1..k |-> [document_id |-> doc_id, chunk_index |-> i - 1,
                              embedding_index |-> start_idx + i - 1]]

\* ------------------------------------------------------------------- Init
\* the state after construction, with the files of `disk` on disk
InitOn(disk) ==
    /\ fs = [f \in AllFiles |-> [mtime |-> 0, exists |-> f \in disk]]
    /\ pc = "constructed"
    /\ index = <<>>
    /\ faiss_file = [exists |-> FALSE, vecs |-> <<>>]
    /\ documents = {}
    /\ chunks = <<>>
    /\ doc_seq = 0
    /\ committed = [documents |-> {}, chunks |-> <<>>, doc_seq |-> 0]
    /\ batch = IdleBatch
    /\ last = NoCall
    /\ results = NoResults
    /\ tasks = NoTasks
    /\ staged_paths = {}
    /\ staging_file = {}

Init == InitOn(Files)

\* ------------------------------------------------------------- index_file
\* What one call of index_file(p) does to the indexer, as a record of the
\* return value and the new values of the state it touches.
\*   fault = "extract": process_file reports an error (or raises)
\*   fault = "embed"  : embedding_model.encode raises
\*   fault = "store"  : the database raises after k statements have run
\*                      (k = 0: the upsert raises; k = j + 1: the document row
\*                      and j chunk rows are written; k = n + 1: commit raises)
\* Every exception is caught at indexer.py:195 and turned into False.
Faults == {"none", "extract", "embed", "store"}

\* a return that first commits what the connection has pending
Flushed(result, cause) ==
    [result |-> result, cause |-> cause, index |-> index, documents |-> documents,
     chunks |-> chunks, doc_seq |-> doc_seq,
     committed |-> [documents |-> documents, chunks |-> chunks, doc_seq |-> doc_seq]]

\* an early return of index_file: nothing is written
Unchanged(result, cause) ==
    [result |-> result, cause |-> cause, index |-> index, documents |-> documents,
     chunks |-> chunks, doc_seq |-> doc_seq, committed |-> committed]

IndexFileEffect(p, fault, k) ==
    LET f == Resolve(p)
        n == NChunks(f)
        start_idx == Len(index)
        newIndex == index \o Embeddings(f, n)
        newDocs == UpsertDocument(documents, doc_seq, p, fs[f].mtime, n)
        document_id == doc_seq + 1
    IN  IF ~ShouldIndexFile(p) \/ IsFileIndexed(p)
            THEN Unchanged("false", "skipped")
        ELSE IF fault = "extract"
            THEN Unchanged("false", "error")
        ELSE IF n = 0
            THEN Unchanged("false", "skipped")
        ELSE IF fault = "embed"
            THEN Unchanged("false", "error")
        ELSE IF fault = "store" /\ k = 0
            THEN [Unchanged("false", "error") EXCEPT !.index = newIndex]
        ELSE IF fault = "store"
            THEN [result |-> "false", cause |-> "error", index |-> newIndex,
                  documents |-> newDocs,
                  chunks |-> InsertChunks(chunks, document_id, start_idx, k - 1),
                  doc_seq |-> document_id, committed |-> committed]
        ELSE LET rows == InsertChunks(chunks, document_id, start_idx, n)
             IN  [result |-> "true", cause |-> "indexed", index |-> newIndex,
                  documents |-> newDocs, chunks |-> rows, doc_seq |-> document_id,
                  committed |-> [documents |-> newDocs, chunks |-> rows,
                                 doc_seq |-> document_id]]

\* the calls the model explores: k counts statements only for a store fault,
\* and the counters stay within their caps
CallOk(p, fault, k) ==
    /\ fault = "store" => k <= NChunks(Resolve(p)) + 1
    /\ fault # "store" => k = 0
    /\ (ShouldIndexFile(p) /\ ~IsFileIndexed(p)) =>
          /\ Len(index) + NChunks(Resolve(p)) <= MaxVectors
          /\ doc_seq < MaxDocId

Apply(eff) ==
    /\ index' = eff.index
    /\ documents' = eff.documents
    /\ chunks' = eff.chunks
    /\ doc_seq' = eff.doc_seq
    /\ committed' = eff.committed

\* await indexer.index_file(p), called on its own
IndexFile(p, fault, k) ==
    /\ pc = "ready" /\ batch.phase # "running"
    /\ CallOk(p, fault, k)
    /\ LET eff == IndexFileEffect(p, fault, k)
       IN  /\ Apply(eff)
           /\ last' = [op |-> "index_file", result |-> eff.result,
                       cause |-> eff.cause]
    /\ batch' = IdleBatch
    /\ Quiet
    /\ UNCHANGED <<fs, pc, faiss_file>>

\* ------------------------------------------------- remove_file_from_index
RemoveFileFromIndex(p) ==
    /\ pc = "ready" /\ batch.phase # "running"
    /\ LET file_path_str == Resolve(p)
           found == DocsByPath(documents, file_path_str)
       IN  IF found = {}
             THEN /\ last' = [op |-> "remove_file_from_index",
                              result |-> "false", cause |-> "none"]
                  /\ UNCHANGED <<documents, chunks, committed>>
             ELSE LET doc_id == (CHOOSE d \in found : TRUE).id
                      newChunks == SelectSeq(chunks, LAMBDA c : c.document_id # doc_id)
                      newDocs == {d \in documents : d.id # doc_id}
                  IN  /\ chunks' = newChunks
                      /\ documents' = newDocs
                      /\ committed' = [documents |-> newDocs, chunks |-> newChunks,
                                       doc_seq |-> doc_seq]
                      /\ last' = [op |-> "remove_file_from_index",
                                  result |-> "true", cause |-> "none"]
    /\ batch' = IdleBatch
    /\ Quiet
    /\ UNCHANGED <<fs, pc, index, faiss_file, doc_seq>>

\* ------------------------------------------- save_index / load_or_create_index
SavedIndex(vecs) == [exists |-> TRUE, vecs |-> vecs]

SaveIndex ==
    /\ pc = "ready" /\ batch.phase # "running"
    /\ faiss_file' = SavedIndex(index)
    /\ batch' = IdleBatch
    /\ last' = NoCall
    /\ Quiet
    /\ UNCHANGED <<fs, pc, index, documents, chunks, doc_seq, committed>>

\* readOk = FALSE: faiss.read_index raises and the except branch creates a new index
LoadedIndex(readOk) ==
    IF faiss_file.exists /\ readOk THEN faiss_file.vecs ELSE <<>>

LoadOrCreateIndex(readOk) ==
    /\ pc = "constructed"
    /\ faiss_file.exists \/ readOk
    /\ index' = LoadedIndex(readOk)
    /\ pc' = "ready"
    /\ Quiet
    /\ UNCHANGED <<fs, faiss_file, documents, chunks, doc_seq, committed, batch, last>>

\* ------------------------------------------------------- process life cycle
\* The process ends (a crash, or the normal end of a CLI command): the memory
\* is lost and the open transaction is rolled back.  The next process
\* constructs its DocumentIndexer: index = None, init_metadata_db connects.
Crash ==
    /\ pc' = "constructed"
    /\ index' = <<>>
    /\ documents' = committed.documents
    /\ chunks' = committed.chunks
    /\ doc_seq' = committed.doc_seq
    /\ batch' = IdleBatch
    /\ last' = NoCall
    /\ results' = NoResults
    /\ tasks' = NoTasks
    /\ UNCHANGED <<fs, faiss_file, committed, staged_paths, staging_file>>

\* the environment rewrites a file, dt half seconds after its last change
ModifyFile(f, dt) ==
    /\ fs[f].exists
    /\ fs[f].mtime + dt <= MaxMtime
    /\ fs' = [fs EXCEPT ![f].mtime = @ + dt]
    /\ Quiet
    /\ UNCHANGED <<pc, index, faiss_file, documents, chunks, doc_seq, committed, batch, last>>

\* ------------------------------------------------- what the claims speak of
\* the Document rows of a path, and "unmodified": a row of p records a
\* modification time less than 1 second (two half seconds) from the file's
RowsOf(p) == {d \in documents : d.file_path = p}
Unmodified(p) ==
    \E d \in RowsOf(p) : fs[Resolve(p)].mtime - d.modified_time \in {-1, 0, 1}

\* ---------------------------------------------------------- batch indexing
\* index_directory (indexer.py), full_reindex and incremental_index
\* (simple_agents.py) over the one configured scan path.
BatchOps == {"index_directory", "full_reindex", "incremental_index"}
SavingOps == {"index_directory", "full_reindex"}

StartBatch(op) ==
    /\ pc = "ready" /\ batch.phase # "running"
    /\ batch' = [IdleBatch EXCEPT !.op = op, !.phase = "running", !.todo = RGlob(ScanDir)]
    /\ last' = NoCall
    /\ Quiet
    /\ UNCHANGED <<fs, pc, index, faiss_file, documents, chunks, doc_seq, committed>>

Bump(b) == IF b THEN 1 ELSE 0

\* the loop has reached the next file: what really happened to it
Reached(b, isDue, hasFailed) ==
    [b EXCEPT !.visited = @ + 1, !.due = @ + Bump(isDue), !.failed = @ + Bump(hasFailed)]

\* a loop that gives up at the first file whose index_file did not return True
CountedOrAbort(b, eff) ==
    [b EXCEPT !.todo = IF eff.result = "true" THEN Tail(b.todo) ELSE <<>>,
              !.processed = @ + 1,
              !.indexed = @ + Bump(eff.result = "true")]

\* the stats after the loop body has run index_file on the next file
Counted(b, eff) ==
    [b EXCEPT !.todo = Tail(b.todo),
              !.processed = @ + 1,
              !.indexed = @ + Bump(eff.result = "true"),
              !.errors = @ + Bump(eff.result = "raise")]

\* one iteration of the loop body
BatchStep(fault, k) ==
    /\ pc = "ready" /\ batch.phase = "running" /\ batch.todo # <<>>
    /\ LET p == Head(batch.todo)
           eff == IndexFileEffect(p, fault, k)
       IN  IF batch.op = "incremental_index" /\ IsFileIndexed(p)
             THEN /\ fault = "none" /\ k = 0
                  /\ batch' = Reached([batch EXCEPT !.todo = Tail(@)],
                                      ~Unmodified(p), FALSE)
                  /\ UNCHANGED <<index, faiss_file, documents, chunks, doc_seq,
                                 committed, last>>
             ELSE /\ CallOk(p, fault, k)
                  /\ Apply(eff)
                  /\ last' = [op |-> "index_file", result |-> eff.result,
                              cause |-> eff.cause]
                  /\ batch' = Reached(Counted(batch, eff),
                                      batch.op \in SavingOps \/ ~Unmodified(p),
                                      eff.cause = "error")
                  /\ faiss_file' =
                        IF batch.op \in SavingOps /\ batch'.indexed % SaveEvery = 0
                          THEN SavedIndex(eff.index) ELSE faiss_file
    /\ Quiet
    /\ UNCHANGED <<fs, pc>>

\* the loop is over: the final save_index of index_directory, and the return
BatchReturn ==
    /\ pc = "ready" /\ batch.phase = "running" /\ batch.todo = <<>>
    /\ batch' = [batch EXCEPT !.phase = "returned"]
    /\ faiss_file' = IF batch.op \in SavingOps THEN SavedIndex(index) ELSE faiss_file
    /\ Quiet
    /\ UNCHANGED <<fs, pc, index, documents, chunks, doc_seq, committed, last>>

\* ------------------------------------------------------------------ search
\* config.py:42  similarity_threshold = 0.7, in hundredths
SimilarityThreshold == 70

Queries == {"qa", "qb"}

\* inner product of the normalised query and chunk embeddings, in hundredths:
\* the embedding model's output for the texts of the model
Score(q, v) ==
    IF q = "qa" THEN (IF v[1] = FileA THEN 95 - 5 * v[2] ELSE 75 - 5 * v[2])
                ELSE (IF v[1] = FileB THEN 90 - 5 * v[2] ELSE 60)

\* index.search(query, k): the k best slots, best first, ties to the lower slot
RECURSIVE FaissSearch(_, _, _)
FaissSearch(q, slots, k) ==
    IF k = 0 \/ slots = {} THEN <<>>
    ELSE LET best == CHOOSE i \in slots : \A j \in slots :
                        \/ Score(q, index[i + 1]) > Score(q, index[j + 1])
                        \/ Score(q, index[i + 1]) = Score(q, index[j + 1]) /\ i <= j
         IN  <<best>> \o FaissSearch(q, slots \ {best}, k - 1)

\* SELECT ... FROM chunks c WHERE c.embedding_index = ?, without the join
ChunkBySlotNoJoin(idx) ==
    SelectSeq(chunks, LAMBDA c : c.embedding_index = idx)

\* SELECT ... FROM chunks c JOIN documents d ON c.document_id = d.id
\* WHERE c.embedding_index = ?   (the rows in rowid order)
ChunkBySlot(idx) ==
    SelectSeq(chunks, LAMBDA c : c.embedding_index = idx
                                 /\ \E d \in documents : d.id = c.document_id)

\* d.file_path of the joined row (no value when no Document row has the id)
DocPath(id) ==
    LET ds == {d \in documents : d.id = id}
    IN  IF ds = {} THEN "" ELSE (CHOOSE d \in ds : TRUE).file_path

\* the loop over the hits without seen_documents
RECURSIVE ResolvedAll(_, _, _)
ResolvedAll(q, hits, seen) ==
    IF hits = <<>> THEN <<>>
    ELSE LET idx == Head(hits)
             score == Score(q, index[idx + 1])
             rows == ChunkBySlot(idx)
         IN  IF score < SimilarityThreshold \/ rows = <<>>
               THEN ResolvedAll(q, Tail(hits), seen)
               ELSE <<[file_path |-> DocPath(Head(rows).document_id),
                       document_id |-> Head(rows).document_id,
                       chunk_index |-> Head(rows).chunk_index,
                       slot |-> idx,
                       similarity_score |-> score]>>
                    \o ResolvedAll(q, Tail(hits), seen)

\* the loop over the hits: threshold, fetchone, seen_documents
RECURSIVE Resolved(_, _, _)
Resolved(q, hits, seen) ==
    IF hits = <<>> THEN <<>>
    ELSE LET idx == Head(hits)
             score == Score(q, index[idx + 1])
             rows == ChunkBySlot(idx)
         IN  IF score < SimilarityThreshold \/ rows = <<>>
                  \/ Head(rows).document_id \in seen
               THEN Resolved(q, Tail(hits), seen)
               ELSE <<[file_path |-> DocPath(Head(rows).document_id),
                       document_id |-> Head(rows).document_id,
                       chunk_index |-> Head(rows).chunk_index,
                       slot |-> idx,
                       similarity_score |-> score]>>
                    \o Resolved(q, Tail(hits), seen \cup {Head(rows).document_id})

\* DocumentIndexer.search(query, k)
Search(q, k) ==
    IF Len(index) = 0 THEN <<>>
    ELSE Resolved(q, FaissSearch(q, 0..(Len(index) - 1), k), {})

\* await indexer.search(q, k), called on its own.  A search leaves the
\* indexer as it was, so the model records one search at a time: a search
\* that follows a search returns what it returns from the state before it.
OneSearch == results = NoResults

IndexerSearch(q, k) ==
    /\ pc = "ready" /\ batch.phase # "running" /\ OneSearch
    /\ results' = [op |-> "search", query |-> q, k |-> k, hits |-> Search(q, k)]
    /\ UNCHANGED <<fs, pc, index, faiss_file, documents, chunks, doc_seq, committed,
                   batch, last, tasks, staged_paths, staging_file>>

\* -------------------------------------------------------------------- text
\* A string the code takes apart is a sequence of one-character strings.
Letters == {"a", "b", "c", "d", "e", "g", "h", "i", "l", "m", "n", "o", "p", "r",
            "s", "t", "u", "v", "w", "x"}
Capitals == {"A", "B", "T", "X"}

\* str.lower() on one character
LowerChar(c) ==
    IF c = "A" THEN "a" ELSE IF c = "B" THEN "b" ELSE IF c = "T" THEN "t"
    ELSE IF c = "X" THEN "x" ELSE c

\* str.lower()
Lower(s) == [i \in 1..Len(s) |-> LowerChar(s[i])]

\* c.isspace(), and the class \w of re
IsSpace(c) == c \in {" ", "\n"}
IsWordChar(c) == c \in Letters \cup Capitals \cup {"_"}

\* pat in s
Contains(s, pat) ==
    \E i \in 0..(Len(s) - Len(pat)) : SubSeq(s, i + 1, i + Len(pat)) = pat

\* s.replace(pat, rep): the occurrences of pat from the left, not overlapping
RECURSIVE Replace(_, _, _)
Replace(s, pat, rep) ==
    IF Len(s) < Len(pat) \/ pat = <<>> THEN s
    ELSE IF SubSeq(s, 1, Len(pat)) = pat
        THEN rep \o Replace(SubSeq(s, Len(pat) + 1, Len(s)), pat, rep)
    ELSE <<Head(s)>> \o Replace(Tail(s), pat, rep)

\* s.strip()
RECURSIVE LStrip(_)
LStrip(s) == IF s # <<>> /\ IsSpace(Head(s)) THEN LStrip(Tail(s)) ELSE s
RECURSIVE RStrip(_)
RStrip(s) ==
    IF s # <<>> /\ IsSpace(s[Len(s)]) THEN RStrip(SubSeq(s, 1, Len(s) - 1)) ELSE s
Strip(s) == RStrip(LStrip(s))

\* set(re.findall(r'\w+', s.lower())): the maximal runs of word characters
Words(s) ==
    LET t == Lower(s) IN
    {SubSeq(t, r[1], r[2]) : r \in
        {r \in (1..Len(t)) \X (1..Len(t)) :
            /\ r[1] <= r[2]
            /\ \A n \in r[1]..r[2] : IsWordChar(t[n])
            /\ (r[1] = 1 \/ ~IsWordChar(t[r[1] - 1]))
            /\ (r[2] = Len(t) \/ ~IsWordChar(t[r[2] + 1]))}}

\* len(s.split()): the runs of non-space characters, counted by where they start
SplitLen(s) ==
    Cardinality({i \in 1..Len(s) : ~IsSpace(s[i]) /\ (i = 1 \/ IsSpace(s[i - 1]))})

Max(a, b) == IF a >= b THEN a ELSE b

\* the scores of the search agent are in thousandths: n / d, rounded down
Ratio(n, d) == (1000 * n) \div d

\* ---------------------------------------------- files, texts and queries
RootDir == "/"

\* directory.rglob("*") with is_file(), for the directories that can be scan paths
RGlobFiles(d) ==
    SelectSeq(IF d = ScanDir THEN <<FileA, FileB>>
              ELSE IF d = RootDir
                  THEN <<FileA, FileB, FileExe, FileBig, FileGit, FileEmpty, FileBlank>>
              ELSE <<>>,
              LAMBDA f : fs[f].exists)

\* file_path.name
FileName(f) ==
    CASE f = FileA -> <<"a", ".", "t", "x", "t">>
      [] f = FileB -> <<"b", ".", "t", "x", "t">>
      [] f = FileExe -> <<"a", ".", "e", "x", "e">>
      [] f = FileBig -> <<"b", "i", "g", ".", "t", "x", "t">>
      [] f = FileGit -> <<"c", ".", "t", "x", "t">>
      [] f = FileEmpty -> <<"n", "o", "n", "e", ".", "t", "x", "t">>
      [] f = FileBlank -> <<"s", "p", "a", "c", "e", ".", "t", "x", "t">>

\* the content column of the Chunk row with ordinal i of a path: the text of
\* that chunk of the file
ChunkText(p, i) == IF Resolve(p) = FileA THEN <<"a", " ", "a", "t", "x", "t">> ELSE <<"b">>

\* the query strings the model asks the search agent, and their characters
AgentQueries == {"A", "a.txt", "txt", "txt..b", "atxt", "a b", " a", ""}

Chars(q) ==
    CASE q = "A" -> <<"A">>
      [] q = "a.txt" -> <<"a", ".", "t", "x", "t">>
      [] q = "txt" -> <<"t", "x", "t">>
      [] q = "txt..b" -> <<"t", "x", "t", ".", ".", "b">>
      [] q = "atxt" -> <<"a", "t", "x", "t">>
      [] q = "a b" -> <<"a", " ", "b">>
      [] q = " a" -> <<" ", "a">>
      [] q = "" -> <<>>

\* embedding_model.encode([query]): which of the two query embeddings of the
\* model the text gets
EmbedQuery(text) == IF Contains(text, <<"a">>) THEN "qa" ELSE "qb"

\* ------------------------------------------------------- SimpleSearchAgent
\* _refine_query: the expansions table, in the order of the dict
Expansions ==
    <<<<<<"d", "o", "c">>, <<"d", "o", "c", " ", "d", "o", "c", "u", "m", "e", "n", "t">>>>,
      <<<<"p", "i", "c">>, <<"p", "i", "c", " ", "p", "i", "c", "t", "u", "r", "e", " ", "i", "m", "a", "g", "e", " ", "p", "h", "o", "t", "o">>>>,
      <<<<"v", "i", "d">>, <<"v", "i", "d", " ", "v", "i", "d", "e", "o">>>>,
      <<<<"t", "x", "t">>, <<"t", "x", "t", " ", "t", "e", "x", "t">>>>,
      <<<<"p", "d", "f">>, <<"p", "d", "f", " ", "d", "o", "c", "u", "m", "e", "n", "t">>>>,
      <<<<"e", "x", "c", "e", "l">>, <<"e", "x", "c", "e", "l", " ", "s", "p", "r", "e", "a", "d", "s", "h", "e", "e", "t", " ", "x", "l", "s", "x", " ", "c", "s", "v">>>>,
      <<<<"p", "r", "e", "s", "e", "n", "t", "a", "t", "i", "o", "n">>, <<"p", "r", "e", "s", "e", "n", "t", "a", "t", "i", "o", "n", " ", "p", "o", "w", "e", "r", "p", "o", "i", "n", "t", " ", "p", "p", "t", " ", "p", "p", "t", "x", " ", "s", "l", "i", "d", "e", "s">>>>>>

RECURSIVE Expand(_, _)
Expand(refined, n) ==
    IF n > Len(Expansions) THEN refined
    ELSE Expand(IF Contains(refined, Expansions[n][1])
                  THEN Replace(refined, Expansions[n][1], Expansions[n][2])
                  ELSE refined, n + 1)

RefineQuery(query) == Expand(Lower(Strip(query)), 1)

\* SequenceMatcher.find_longest_match within a[alo..ahi] and b[blo..bhi]: the
\* matching blocks <<i, j, size>>, and the longest of them, the one that starts
\* earliest in a and then earliest in b
MatchingBlocks(a, b, alo, ahi, blo, bhi) ==
    {t \in (alo..ahi) \X (blo..bhi) \X (1..(ahi - alo + 1)) :
        /\ t[1] + t[3] - 1 <= ahi
        /\ t[2] + t[3] - 1 <= bhi
        /\ SubSeq(a, t[1], t[1] + t[3] - 1) = SubSeq(b, t[2], t[2] + t[3] - 1)}

LongestMatch(blocks) ==
    CHOOSE t \in blocks : \A u \in blocks :
        \/ t[3] > u[3]
        \/ t[3] = u[3] /\ t[1] < u[1]
        \/ t[3] = u[3] /\ t[1] = u[1] /\ t[2] <= u[2]

\* the total size of SequenceMatcher.get_matching_blocks()
RECURSIVE Matches(_, _, _, _, _, _)
Matches(a, b, alo, ahi, blo, bhi) ==
    LET blocks == MatchingBlocks(a, b, alo, ahi, blo, bhi)
    IN  IF blocks = {} THEN 0
        ELSE LET t == LongestMatch(blocks)
             IN  t[3] + Matches(a, b, alo, t[1] - 1, blo, t[2] - 1)
                      + Matches(a, b, t[1] + t[3], ahi, t[2] + t[3], bhi)

\* _fuzzy_score: SequenceMatcher(None, text1.lower(), text2.lower()).ratio()
FuzzyScore(text1, text2) ==
    LET a == Lower(text1)
        b == Lower(text2)
    IN  IF Len(a) + Len(b) = 0 THEN 1000
        ELSE Ratio(2 * Matches(a, b, 1, Len(a), 1, Len(b)), Len(a) + Len(b))

\* a keyword score that divides by the number of words of the content
KeywordOverContent(query, content) ==
    LET query_words == Words(query)
        content_words == Words(content)
    IN  IF query_words = {} \/ content_words = {} THEN 0
        ELSE Ratio(Cardinality(query_words \cap content_words), Cardinality(content_words))

\* _keyword_match_score
KeywordMatchScore(query, content) ==
    LET query_words == Words(query)
        content_words == Words(content)
    IN  IF query_words = {} THEN 0
        ELSE Ratio(Cardinality(query_words \cap content_words), Cardinality(query_words))

\* one candidate of _filename_search: the score of the substring or fuzzy match,
\* the `continue` of a low fuzzy score, and final_score
MatchScore(pattern, f) ==
    IF Contains(Lower(FileName(f)), Lower(pattern)) THEN 1000
    ELSE FuzzyScore(Lower(pattern), Lower(FileName(f)))

Skipped(pattern, f) ==
    /\ ~Contains(Lower(FileName(f)), Lower(pattern))
    /\ MatchScore(pattern, f) < 600

FinalScore(pattern, f) ==
    Max(MatchScore(pattern, f), KeywordMatchScore(pattern, FileName(f)))

\* the inner loop over scan_path.rglob("*"): it ends at the `break`
RECURSIVE ScanFiles(_, _, _, _)
ScanFiles(pattern, files, found, max_results) ==
    IF files = <<>> THEN found
    ELSE LET f == Head(files)
             final_score == FinalScore(pattern, f)
         IN  IF Skipped(pattern, f) \/ final_score < 600
               THEN ScanFiles(pattern, Tail(files), found, max_results)
               ELSE LET more == Append(found, [file_path |-> f,
                                               similarity_score |-> final_score,
                                               search_type |-> "filename"])
                    IN  IF Len(more) >= max_results THEN more
                        ELSE ScanFiles(pattern, Tail(files), more, max_results)

\* the outer loop over config.scan_paths
RECURSIVE ScanPaths(_, _, _, _)
ScanPaths(pattern, scan_paths, found, max_results) ==
    IF scan_paths = <<>> THEN found
    ELSE ScanPaths(pattern, Tail(scan_paths),
                   ScanFiles(pattern, RGlobFiles(Head(scan_paths)), found, max_results),
                   max_results)

\* an insertion that puts an entry before the entries of the same score
InsertBeforeTies(sorted, e) ==
    LET above == SelectSeq(sorted, LAMBDA r : r.similarity_score > e.similarity_score)
        rest == SelectSeq(sorted, LAMBDA r : r.similarity_score <= e.similarity_score)
    IN  above \o <<e>> \o rest

\* sorted(..., key = similarity_score, reverse = True) and list.sort(...,
\* reverse = True): stable, equal scores keep their order
RECURSIVE InsertDesc(_, _)
InsertDesc(sorted, e) ==
    IF sorted = <<>> THEN <<e>>
    ELSE IF Head(sorted).similarity_score >= e.similarity_score
        THEN <<Head(sorted)>> \o InsertDesc(Tail(sorted), e)
    ELSE <<e>> \o sorted

RECURSIVE SortDesc(_)
SortDesc(list) ==
    IF list = <<>> THEN <<>>
    ELSE InsertDesc(SortDesc(SubSeq(list, 1, Len(list) - 1)), list[Len(list)])

\* _filename_search(pattern, max_results)
FilenameSearch(pattern, max_results, scan_paths) ==
    SortDesc(ScanPaths(pattern, scan_paths, <<>>, max_results))

\* _determine_search_strategy
KnownExtensions == {<<".", "p", "d", "f">>, <<".", "x", "l", "s", "x">>, <<".", "d", "o", "c">>, <<".", "t", "x", "t">>}

\* the strategy that sends every whitespace-free query to the filename leg only
FilenameForSingleToken(query) ==
    IF \E i \in 1..Len(query) : IsSpace(query[i]) THEN "semantic" ELSE "filename"

DetermineSearchStrategy(query) ==
    IF \E ext \in KnownExtensions : Contains(Lower(query), ext) THEN "filename"
    ELSE IF SplitLen(query) = 1 /\ \A i \in 1..Len(query) : ~IsSpace(query[i]) THEN "both"
    ELSE "semantic"

\* _hybrid_score_combine, on thousandths
HybridScoreCombine(semantic_score, keyword_score, filename_score) ==
    (500 * semantic_score + 300 * keyword_score + 200 * filename_score) \div 1000

\* all_results, a dict in insertion order: the position of a path, 0 when absent
Position(all, path) ==
    LET at == {i \in 1..Len(all) : all[i].file_path = path}
    IN  IF at = {} THEN 0 ELSE CHOOSE i \in at : TRUE

\* indexer.py:263  content[:200] + "..." if len(content) > 200 else content
SnippetLen == 200
ContentSnippet(content) ==
    IF Len(content) > SnippetLen THEN SubSeq(content, 1, SnippetLen) \o <<".", ".", ".">>
    ELSE content

\* the semantic leg: one entry per result of indexer.search, with the hybrid score
SemanticEntry(query, hit) ==
    [file_path |-> hit.file_path,
     similarity_score |->
         HybridScoreCombine(10 * hit.similarity_score,
                            KeywordMatchScore(query,
                                ContentSnippet(ChunkText(hit.file_path, hit.chunk_index))),
                            0),
     search_type |-> "hybrid_semantic"]

SemanticLeg(query, max_search_results) ==
    LET found == Search(EmbedQuery(RefineQuery(query)), 2 * max_search_results)
    IN  [i \in 1..Len(found) |-> SemanticEntry(query, found[i])]

\* the loop over semantic_results (simple_agents.py:133-147)
RECURSIVE MergeSemantic(_, _)
MergeSemantic(all, entries) ==
    IF entries = <<>> THEN all
    ELSE LET e == Head(entries)
             at == Position(all, e.file_path)
         IN  MergeSemantic(IF at = 0 THEN Append(all, e)
                           ELSE IF all[at].similarity_score < e.similarity_score
                               THEN [all EXCEPT ![at] = e]
                           ELSE all,
                           Tail(entries))

\* the loop over filename_results (simple_agents.py:153-167)
RECURSIVE MergeFilename(_, _)
MergeFilename(all, entries) ==
    IF entries = <<>> THEN all
    ELSE LET e == Head(entries)
             at == Position(all, e.file_path)
         IN  MergeFilename(
                 IF at = 0 THEN Append(all, [e EXCEPT !.search_type = "filename_fuzzy"])
                 ELSE [all EXCEPT ![at].similarity_score =
                                      Max(@ + 200, e.similarity_score),
                                  ![at].search_type = "hybrid_combined"],
                 Tail(entries))

\* the legs search runs for a strategy (simple_agents.py:129, 150)
LegsRun(strategy) ==
    (IF strategy \in {"semantic", "both"} THEN {"semantic"} ELSE {})
        \cup (IF strategy \in {"filename", "both"} THEN {"filename"} ELSE {})

\* all_results when both loops are over
AllResults(query, scan_paths, max_search_results) ==
    LET legs == LegsRun(DetermineSearchStrategy(query))
        semantic == IF "semantic" \in legs
                      THEN MergeSemantic(<<>>, SemanticLeg(query, max_search_results))
                      ELSE <<>>
    IN  IF "filename" \in legs
          THEN MergeFilename(semantic, FilenameSearch(query, 15, scan_paths))
          ELSE semantic

\* SimpleSearchAgent.search(query): sort, filter, truncate
HybridSearch(query, scan_paths, max_search_results) ==
    LET sorted == SortDesc(AllResults(query, scan_paths, max_search_results))
        filtered == SelectSeq(sorted, LAMBDA r : r.similarity_score >= 300)
    IN  SubSeq(filtered, 1, IF Len(filtered) < max_search_results
                              THEN Len(filtered) ELSE max_search_results)

\* semantic_results with the hybrid scores, empty when the leg does not run
SemanticResults(query, max_search_results) ==
    IF "semantic" \in LegsRun(DetermineSearchStrategy(query))
      THEN SemanticLeg(query, max_search_results) ELSE <<>>

\* the configurations of the model: config.scan_paths after configure_paths
\* added the root directory, and config.max_search_results set to 1
ScanConfigs == {<<ScanDir>>, <<ScanDir, RootDir>>}
ResultCaps == {1, 20}

\* await search_agent.search(query), as the tool server calls it
AgentSearch(q, scan_paths, cap) ==
    /\ pc = "ready" /\ batch.phase # "running" /\ OneSearch
    /\ results' = [op |-> "agent", query |-> q, k |-> cap, scan_paths |-> scan_paths,
                   legs |-> LegsRun(DetermineSearchStrategy(Chars(q))),
                   semantic |-> SemanticResults(Chars(q), cap),
                   hits |-> HybridSearch(Chars(q), scan_paths, cap)]
    /\ UNCHANGED <<fs, pc, index, faiss_file, documents, chunks, doc_seq, committed,
                   batch, last, tasks, staged_paths, staging_file>>

\* the search command, after its load_or_create_index: nothing is searched
\* when the index is empty
CliSearch(q) ==
    /\ pc = "ready" /\ batch.phase # "running" /\ OneSearch
    /\ results' = [op |-> "cli", query |-> q, k |-> 20, scan_paths |-> <<ScanDir>>,
                   legs |-> IF Len(index) = 0 THEN {}
                            ELSE LegsRun(DetermineSearchStrategy(Chars(q))),
                   semantic |-> IF Len(index) = 0 THEN <<>>
                                ELSE SemanticResults(Chars(q), 20),
                   hits |-> IF Len(index) = 0 THEN <<>>
                            ELSE HybridSearch(Chars(q), <<ScanDir>>, 20)]
    /\ UNCHANGED <<fs, pc, index, faiss_file, documents, chunks, doc_seq, committed,
                   batch, last, tasks, staged_paths, staging_file>>

\* should_ignore_path without a .betterfinderignore: a part of the path is the
\* name of an ignored directory (no file of the model has such a name itself)
ShouldIgnorePath(f) == ParentNames(f) \cap IgnoredDirectories # {}

\* the add command of the staging area, for one file: add_path and its save_staging
StagePath(f) ==
    /\ f \notin staged_paths
    /\ fs[f].exists
    /\ Suffix(f) \in SupportedExtensions /\ ~ShouldIgnorePath(f)
    /\ staged_paths' = staged_paths \cup {f}
    /\ staging_file' = staged_paths'
    /\ results' = NoResults
    /\ UNCHANGED <<fs, pc, index, faiss_file, documents, chunks, doc_seq, committed,
                   batch, last, tasks>>

\* --------------------------------------------------- the remove-file command
\* remove_file (cli.py:495-521), after its load_or_create_index: the stat()
\* of is_file_indexed raises for a file that is gone, and the except branch
\* of the command reports the error
CliRemoveFile(p) ==
    /\ pc = "ready" /\ batch.phase # "running"
    /\ LET path_obj == Resolve(p)
           found == DocsByPath(documents, path_obj)
       IN  IF found # {} /\ ~Exists(path_obj)
             THEN /\ last' = [op |-> "remove_file", result |-> "error", cause |-> "none"]
                  /\ UNCHANGED <<documents, chunks, committed>>
           ELSE IF ~IsFileIndexed(path_obj)
             THEN /\ last' = [op |-> "remove_file", result |-> "not_found",
                              cause |-> "none"]
                  /\ UNCHANGED <<documents, chunks, committed>>
           ELSE LET doc_id == (CHOOSE d \in found : TRUE).id
                    newChunks == SelectSeq(chunks, LAMBDA c : c.document_id # doc_id)
                    newDocs == {d \in documents : d.id # doc_id}
                IN  /\ chunks' = newChunks
                    /\ documents' = newDocs
                    /\ committed' = [documents |-> newDocs, chunks |-> newChunks,
                                     doc_seq |-> doc_seq]
                    /\ last' = [op |-> "remove_file", result |-> "removed",
                                cause |-> "none"]
    /\ batch' = IdleBatch
    /\ Quiet
    /\ UNCHANGED <<fs, pc, index, faiss_file, doc_seq>>

\* ------------------------------------------------------ the staging area
\* the environment deletes a file
DeleteFile(f) ==
    /\ fs[f].exists
    /\ fs' = [fs EXCEPT ![f].exists = FALSE]
    /\ results' = NoResults
    /\ UNCHANGED <<pc, index, faiss_file, documents, chunks, doc_seq, committed, batch,
                   last, tasks, staged_paths, staging_file>>

\* the staged paths without the check that they exist
AllStaged == staged_paths

\* the paths get_staged_files keeps: Path(path_str).exists()
ExistingStaged == {f \in staged_paths : fs[f].exists}

\* the orders in which a loop over a set can meet its members
Orders(S) ==
    {order \in [1..Cardinality(S) -> S] :
        \A i, j \in 1..Cardinality(S) : order[i] = order[j] => i = j}

\* get_staged_files(): the list of the existing staged paths, in the order of
\* the set's iteration
GetStagedFiles(order) ==
    /\ OneSearch
    /\ order \in Orders(ExistingStaged)
    /\ results' = [op |-> "get_staged_files", query |-> "", k |-> 0, hits |-> order]
    /\ UNCHANGED <<fs, pc, index, faiss_file, documents, chunks, doc_seq, committed,
                   batch, last, tasks, staged_paths, staging_file>>

\* clear_staging(): staged_paths.clear() and save_staging()
ClearStaging ==
    /\ staged_paths' = {}
    /\ staging_file' = staged_paths'
    /\ last' = [op |-> "clear_staging", result |-> "none", cause |-> "none"]
    /\ results' = NoResults
    /\ UNCHANGED <<fs, pc, index, faiss_file, documents, chunks, doc_seq, committed,
                   batch, tasks>>

\* the files the model stages and deletes
Stageable == {FileA, FileB, FileBig, FileExe, FileGit}
Deletable == {FileA, FileB, FileBig}

\* ------------------------------------------------ the staged indexing flow
\* cli.py:281  stats["indexed"] % 50 == 0
StagedSaveEvery == 50

\* the index command with staged files (cli.py:260-289), after its
\* load_or_create_index: get_staged_files, and the return when nothing is staged
StartStaged(order) ==
    /\ pc = "ready" /\ batch.phase # "running"
    /\ order \in Orders(ExistingStaged)
    /\ order # <<>>
    /\ batch' = [IdleBatch EXCEPT !.op = "staged", !.phase = "running", !.todo = order]
    /\ last' = NoCall
    /\ results' = NoResults
    /\ UNCHANGED <<fs, pc, index, faiss_file, documents, chunks, doc_seq, committed,
                   tasks, staged_paths, staging_file>>

\* one iteration of the loop over staged_files
StagedStep(fault, k) ==
    /\ pc = "ready" /\ batch.op = "staged" /\ batch.phase = "running" /\ batch.todo # <<>>
    /\ LET p == Head(batch.todo)
           eff == IndexFileEffect(p, fault, k)
       IN  /\ CallOk(p, fault, k)
           /\ Apply(eff)
           /\ last' = [op |-> "index_file", result |-> eff.result, cause |-> eff.cause]
           /\ batch' = Reached(Counted(batch, eff), TRUE, eff.cause = "error")
           /\ faiss_file' = IF batch'.indexed % StagedSaveEvery = 0
                              THEN SavedIndex(eff.index) ELSE faiss_file
    /\ results' = NoResults
    /\ UNCHANGED <<fs, pc, tasks, staged_paths, staging_file>>

\* the loop is over: save_index, and clear_staging when stats["errors"] == 0
StagedReturn ==
    /\ pc = "ready" /\ batch.op = "staged" /\ batch.phase = "running" /\ batch.todo = <<>>
    /\ batch' = [batch EXCEPT !.phase = "returned"]
    /\ faiss_file' = SavedIndex(index)
    /\ staged_paths' = IF batch.errors = 0 THEN {} ELSE staged_paths
    /\ staging_file' = IF batch.errors = 0 THEN staged_paths' ELSE staging_file
    /\ results' = NoResults
    /\ UNCHANGED <<fs, pc, index, documents, chunks, doc_seq, committed, last, tasks>>

\* ------------------------------------------------- the search_files tool
\* mcp_server.py:97-101, 211-217: the file types of the tool and type_extensions
FileTypes == {"pdf", "excel", "word", "text", "csv", "any"}
TypeExtensions(file_type) ==
    CASE file_type = "pdf" -> <<<<".", "p", "d", "f">>>>
      [] file_type = "excel" -> <<<<".", "x", "l", "s", "x">>, <<".", "x", "l", "s">>, <<".", "c", "s", "v">>>>
      [] file_type = "word" -> <<<<".", "d", "o", "c", "x">>, <<".", "d", "o", "c">>>>
      [] file_type = "text" -> <<<<".", "t", "x", "t">>, <<".", "m", "d">>>>
      [] file_type = "csv" -> <<<<".", "c", "s", "v">>>>
      [] OTHER -> <<>>

\* ' '.join(...)
RECURSIVE JoinSpace(_)
JoinSpace(words) ==
    IF words = <<>> THEN <<>>
    ELSE IF Len(words) = 1 THEN words[1]
    ELSE Head(words) \o <<" ">> \o JoinSpace(Tail(words))

\* query += f" {' '.join(type_extensions.get(file_type, []))}"
TypedQuery(query, file_type) ==
    IF file_type = "any" THEN query
    ELSE query \o <<" ">> \o JoinSpace(TypeExtensions(file_type))

\* the queries and max_results the model gives the tool; 10 is the default
ToolQueries == {"a.txt", "A", "a b"}
ToolCaps == {1, 10}

\* _handle_search_files: search_agent.search(query), then results[:max_results]
HandleSearchFiles(q, max_results, file_type) ==
    /\ pc = "ready" /\ batch.phase # "running" /\ OneSearch
    /\ LET query == TypedQuery(Chars(q), file_type)
           found == HybridSearch(query, <<ScanDir>>, 20)
       IN  results' = [op |-> "search_files", query |-> q, k |-> max_results,
                       file_type |-> file_type,
                       legs |-> LegsRun(DetermineSearchStrategy(query)),
                       hits |-> SubSeq(found, 1, IF Len(found) < max_results
                                                   THEN Len(found) ELSE max_results)]
    /\ UNCHANGED <<fs, pc, index, faiss_file, documents, chunks, doc_seq, committed,
                   batch, last, tasks, staged_paths, staging_file>>

\* ------------------------------------------------------- the text splitter
\* self.text_splitter = RecursiveCharacterTextSplitter(chunk_size, chunk_overlap)
\* (indexer.py:28-31) and text_splitter.split_text(content) (indexer.py:152):
\* the splitter of langchain with its defaults, separators "\n\n", "\n", " ", ""
\* tried in this order, keep_separator and strip_whitespace on.
Separators == <<<<"\n", "\n">>, <<"\n">>, <<" ">>, <<>>>>

\* "".join(docs)
RECURSIVE Join(_)
Join(docs) == IF docs = <<>> THEN <<>> ELSE Head(docs) \o Join(Tail(docs))

\* where sep first occurs in text, 0 when it does not
FirstAt(text, sep) ==
    LET at == {i \in 1..(Len(text) - Len(sep) + 1) : SubSeq(text, i, i + Len(sep) - 1) = sep}
    IN  IF at = {} THEN 0 ELSE CHOOSE i \in at : \A j \in at : i <= j

\* re.split(sep, text): the texts between the occurrences of sep
RECURSIVE Pieces(_, _)
Pieces(text, sep) ==
    LET i == FirstAt(text, sep)
    IN  IF i = 0 THEN <<text>>
        ELSE <<SubSeq(text, 1, i - 1)>> \o Pieces(SubSeq(text, i + Len(sep), Len(text)), sep)

\* _split_text_with_regex with keep_separator: each separator stays at the
\* head of the piece that follows it, the empty pieces are dropped
SplitTextWithRegex(text, sep) ==
    LET pieces == Pieces(text, sep)
        splits == IF sep = <<>> THEN [i \in 1..Len(text) |-> <<text[i]>>]
                  ELSE [i \in 1..Len(pieces) |->
                           IF i = 1 THEN pieces[1] ELSE sep \o pieces[i]]
    IN  SelectSeq(splits, LAMBDA x : x # <<>>)

\* _join_docs: the joined text, stripped; None (here no chunk) when nothing is left
JoinDocs(docs) == IF Strip(Join(docs)) = <<>> THEN <<>> ELSE <<Strip(Join(docs))>>

\* the while loop of _merge_splits: drop pieces from the front of current_doc
\* until what is left is within the overlap and leaves room for the next piece
RECURSIVE PopFront(_, _, _, _)
PopFront(current_doc, len, chunk_size, chunk_overlap) ==
    LET total == Len(Join(current_doc))
    IN  IF total > chunk_overlap \/ (total + len > chunk_size /\ total > 0)
          THEN PopFront(Tail(current_doc), len, chunk_size, chunk_overlap)
          ELSE current_doc

\* _merge_splits with the separator "" that keep_separator gives it
RECURSIVE MergeSplits(_, _, _, _, _)
MergeSplits(splits, docs, current_doc, chunk_size, chunk_overlap) ==
    IF splits = <<>> THEN docs \o JoinDocs(current_doc)
    ELSE LET d == Head(splits)
             total == Len(Join(current_doc))
         IN  IF total + Len(d) > chunk_size /\ current_doc # <<>>
               THEN MergeSplits(Tail(splits), docs \o JoinDocs(current_doc),
                                Append(PopFront(current_doc, Len(d), chunk_size,
                                                chunk_overlap), d),
                                chunk_size, chunk_overlap)
               ELSE MergeSplits(Tail(splits), docs, Append(current_doc, d),
                                chunk_size, chunk_overlap)

\* the separator _split_text picks: the first that is empty or occurs in the text
SeparatorAt(text, separators) ==
    CHOOSE i \in 1..Len(separators) :
        /\ separators[i] = <<>> \/ FirstAt(text, separators[i]) # 0
        /\ \A j \in 1..(i - 1) : separators[j] # <<>> /\ FirstAt(text, separators[j]) = 0

\* RecursiveCharacterTextSplitter._split_text, and its loop over the splits
RECURSIVE SplitTextRec(_, _, _, _)
RECURSIVE GoodSplits(_, _, _, _, _, _)
GoodSplits(splits, good_splits, final_chunks, new_separators, chunk_size, chunk_overlap) ==
    LET merged == IF good_splits = <<>> THEN <<>>
                  ELSE MergeSplits(good_splits, <<>>, <<>>, chunk_size, chunk_overlap)
    IN  IF splits = <<>> THEN final_chunks \o merged
        ELSE LET s == Head(splits)
             IN  IF Len(s) < chunk_size
                   THEN GoodSplits(Tail(splits), Append(good_splits, s), final_chunks,
                                   new_separators, chunk_size, chunk_overlap)
                   ELSE GoodSplits(Tail(splits), <<>>,
                                   final_chunks \o merged \o
                                       (IF new_separators = <<>> THEN <<s>>
                                        ELSE SplitTextRec(s, new_separators, chunk_size,
                                                          chunk_overlap)),
                                   new_separators, chunk_size, chunk_overlap)

SplitTextRec(text, separators, chunk_size, chunk_overlap) ==
    LET i == SeparatorAt(text, separators)
        new_separators == IF separators[i] = <<>> THEN <<>>
                          ELSE SubSeq(separators, i + 1, Len(separators))
    IN  GoodSplits(SplitTextWithRegex(text, separators[i]), <<>>, <<>>, new_separators,
                   chunk_size, chunk_overlap)

\* text_splitter.split_text(content)
SplitText(text, chunk_size, chunk_overlap) ==
    SplitTextRec(text, Separators, chunk_size, chunk_overlap)

\* the texts and the (chunk_size, chunk_overlap) settings of the model
Alphabet == {"a", "b", " ", "\n"}
Texts == UNION {[1..n -> Alphabet] : n \in 0..MaxText}
Windows == {w \in (1..MaxWindow) \X (0..MaxWindow) : w[2] < w[1]}

\* chunks = self.text_splitter.split_text(file_data["content"]), on its own
SplitContent(text, chunk_size, chunk_overlap) ==
    /\ OneSearch
    /\ results' = [op |-> "split_text", query |-> "", k |-> 0, text |-> text,
                   chunk_size |-> chunk_size, chunk_overlap |-> chunk_overlap,
                   hits |-> SplitText(text, chunk_size, chunk_overlap)]
    /\ UNCHANGED <<fs, pc, index, faiss_file, documents, chunks, doc_seq, committed,
                   batch, last, tasks, staged_paths, staging_file>>

\* ------------------------------------------- concurrent index_file calls
\* asyncio.gather(index_file(p1), index_file(p2)) on the one event loop: a
\* coroutine runs from one suspension point to the next without the loop
\* switching to another.  The steps of index_file, by the place it has reached:
\*   "pending"   not started             "embedded" embeddings computed
\*   "checked"   eligible, not current   "started"  start_idx = index.ntotal read
\*   "extracted" content and chunks      "appended" index.add done
\*   "stored"    rows written            "done"     returned
Places == <<"pending", "checked", "extracted", "embedded", "started", "appended",
            "stored", "done">>

\* a loop that may switch coroutines after every step
EveryStepSuspends(place) == TRUE

\* the places at which index_file awaits: its body has no await expression
\* (indexer.py:139-197), so the loop cannot switch before it returns
Suspends(place) == FALSE

GatherSets == {{FileA, FileB}, {RelA, FileB}}

NewTask == [at |-> "pending", result |-> "none", start_idx |-> 0, first |-> 0,
            added |-> 0, document_id |-> 0]

\* the coroutines are created; none has run yet
Gather(paths) ==
    /\ pc = "ready" /\ batch.phase # "running" /\ tasks = NoTasks
    /\ tasks' = [run |-> "none", co |-> [p \in paths |-> NewTask]]
    /\ results' = NoResults
    /\ last' = NoCall
    /\ batch' = IdleBatch
    /\ UNCHANGED <<fs, pc, index, faiss_file, documents, chunks, doc_seq, committed,
                   staged_paths, staging_file>>

\* the task p after a step that took it to `place`: the loop keeps running p
\* unless p has returned or the step ends at a suspension point
Moved(p, t, place) ==
    [run |-> IF place = "done" \/ Suspends(place) THEN "none" ELSE p,
     co |-> [tasks.co EXCEPT ![p] = [t EXCEPT !.at = place]]]

Returned(p, t, result) ==
    [run |-> "none",
     co |-> [tasks.co EXCEPT ![p] = [t EXCEPT !.at = "done", !.result = result]]]

\* one step of the coroutine of p; fault and k as in IndexFileEffect
TaskStep(p, fault, k) ==
    /\ pc = "ready" /\ tasks # NoTasks
    /\ p \in DOMAIN tasks.co
    /\ tasks.run \in {"none", p}
    /\ fault = "store" => k <= NChunks(Resolve(p)) + 1
    /\ fault # "store" => k = 0
    /\ tasks.co[p].at = "pending" => CallOk(p, fault, k)
    /\ LET t == tasks.co[p]
           f == Resolve(p)
           n == NChunks(f)
       IN  CASE t.at = "pending" ->
                  /\ tasks' = IF ~ShouldIndexFile(p) \/ IsFileIndexed(p)
                                THEN Returned(p, t, "false") ELSE Moved(p, t, "checked")
                  /\ UNCHANGED <<index, documents, chunks, doc_seq, committed>>
             [] t.at = "checked" ->
                  /\ tasks' = IF fault = "extract" \/ n = 0
                                THEN Returned(p, t, "false") ELSE Moved(p, t, "extracted")
                  /\ UNCHANGED <<index, documents, chunks, doc_seq, committed>>
             [] t.at = "extracted" ->
                  /\ tasks' = IF fault = "embed"
                                THEN Returned(p, t, "false") ELSE Moved(p, t, "embedded")
                  /\ UNCHANGED <<index, documents, chunks, doc_seq, committed>>
             [] t.at = "embedded" ->
                  /\ tasks' = Moved(p, [t EXCEPT !.start_idx = Len(index)], "started")
                  /\ UNCHANGED <<index, documents, chunks, doc_seq, committed>>
             [] t.at = "started" ->
                  /\ index' = index \o Embeddings(f, n)
                  /\ tasks' = Moved(p, [t EXCEPT !.first = Len(index), !.added = n],
                                    "appended")
                  /\ UNCHANGED <<documents, chunks, doc_seq, committed>>
             [] t.at = "appended" ->
                  IF fault = "store" /\ k = 0
                    THEN /\ tasks' = Returned(p, t, "false")
                         /\ UNCHANGED <<index, documents, chunks, doc_seq, committed>>
                    ELSE LET rows == IF fault = "store" /\ k <= n THEN k - 1 ELSE n
                             u == [t EXCEPT !.document_id = doc_seq + 1]
                         IN  /\ documents' = UpsertDocument(documents, doc_seq, p,
                                                            fs[f].mtime, n)
                             /\ chunks' = InsertChunks(chunks, doc_seq + 1, t.start_idx, rows)
                             /\ doc_seq' = doc_seq + 1
                             /\ tasks' = IF fault = "store" /\ k <= n
                                           THEN Returned(p, u, "false")
                                           ELSE Moved(p, u, "stored")
                             /\ UNCHANGED <<index, committed>>
             [] t.at = "stored" ->
                  IF fault = "store"
                    THEN /\ tasks' = Returned(p, t, "false")
                         /\ UNCHANGED <<index, documents, chunks, doc_seq, committed>>
                    ELSE /\ committed' = [documents |-> documents, chunks |-> chunks,
                                          doc_seq |-> doc_seq]
                         /\ tasks' = Returned(p, t, "true")
                         /\ UNCHANGED <<index, documents, chunks, doc_seq>>
             [] t.at = "done" -> FALSE
    /\ results' = NoResults
    /\ UNCHANGED <<fs, pc, faiss_file, batch, last, staged_paths, staging_file>>

\* gather returns when every coroutine has returned
GatherReturn ==
    /\ tasks # NoTasks
    /\ \A p \in DOMAIN tasks.co : tasks.co[p].at = "done"
    /\ tasks' = NoTasks
    /\ results' = NoResults
    /\ UNCHANGED <<fs, pc, index, faiss_file, documents, chunks, doc_seq, committed,
                   batch, last, staged_paths, staging_file>>

\* ------------------------------------------------------------------- Next
Next ==
    \/ \E p \in PathStrs, fault \in Faults, k \in 0..(MaxChunks + 1) : IndexFile(p, fault, k)
    \/ \E p \in PathStrs : RemoveFileFromIndex(p)
    \/ SaveIndex
    \/ \E readOk \in BOOLEAN : LoadOrCreateIndex(readOk)
    \/ Crash
    \/ \E f \in Rewritten, dt \in 1..MtimeTolerance : ModifyFile(f, dt)
    \/ \E op \in BatchOps : StartBatch(op)
    \/ \E fault \in Faults, k \in 0..(MaxChunks + 1) : BatchStep(fault, k)
    \/ BatchReturn

Spec == Init /\ [][Next]_vars

\* one indexer used through index_file and remove_file_from_index alone, over
\* process restarts and file rewrites
IndexNext ==
    \/ \E p \in PathStrs, fault \in Faults, k \in 0..(MaxChunks + 1) : IndexFile(p, fault, k)
    \/ \E p \in PathStrs : RemoveFileFromIndex(p)
    \/ \E readOk \in BOOLEAN : LoadOrCreateIndex(readOk)
    \/ Crash
    \/ \E f \in Rewritten, dt \in 1..MtimeTolerance : ModifyFile(f, dt)

IndexSpec == Init /\ [][IndexNext]_vars

\* the same, with index_file also called on the paths it turns away
RejectNext ==
    \/ IndexNext
    \/ \E p \in TurnedAway, fault \in {"none", "extract"} : IndexFile(p, fault, 0)

RejectSpec == InitOn(AllFiles) /\ [][RejectNext]_vars

\* one indexer used through the batch operations alone
BatchNext ==
    \/ \E readOk \in BOOLEAN : LoadOrCreateIndex(readOk)
    \/ Crash
    \/ \E f \in Rewritten, dt \in 1..MtimeTolerance : ModifyFile(f, dt)
    \/ \E op \in BatchOps : StartBatch(op)
    \/ \E fault \in Faults, k \in 0..(MaxChunks + 1) : BatchStep(fault, k)
    \/ BatchReturn

BatchSpec == Init /\ [][BatchNext]_vars

\* one indexer used through index_file, remove_file_from_index and search
SearchNext ==
    \/ \E p \in PathStrs, fault \in Faults, k \in 0..(MaxChunks + 1) : IndexFile(p, fault, k)
    \/ \E p \in PathStrs : RemoveFileFromIndex(p)
    \/ \E readOk \in BOOLEAN : LoadOrCreateIndex(readOk)
    \/ Crash
    \/ \E f \in Rewritten : ModifyFile(f, MtimeTolerance)
    \/ \E q \in Queries, k \in 1..MaxK : IndexerSearch(q, k)

SearchSpec == Init /\ [][SearchNext]_vars

\* the search agent over an indexer that indexes, removes and restarts without faults
AgentNext ==
    \/ \E p \in PathStrs : IndexFile(p, "none", 0)
    \/ \E p \in PathStrs : RemoveFileFromIndex(p)
    \/ \E readOk \in BOOLEAN : LoadOrCreateIndex(readOk)
    \/ Crash
    \/ \E f \in Files : StagePath(f)
    \/ \E q \in AgentQueries, scan_paths \in ScanConfigs, cap \in ResultCaps :
           AgentSearch(q, scan_paths, cap)
    \/ \E q \in AgentQueries : CliSearch(q)

AgentSpec == Init /\ [][AgentNext]_vars

\* one indexer whose index_file is called for several files at once
ConcNext ==
    \/ \E readOk \in BOOLEAN : LoadOrCreateIndex(readOk)
    \/ \E f \in Rewritten, dt \in 1..MtimeTolerance : ModifyFile(f, dt)
    \/ \E paths \in GatherSets : Gather(paths)
    \/ \E p \in PathStrs, fault \in Faults, k \in 0..(MaxChunks + 1) : TaskStep(p, fault, k)
    \/ GatherReturn

ConcSpec == Init /\ [][ConcNext]_vars

\* the remove-file command over an indexer that indexes files the environment
\* rewrites and deletes
CliNext ==
    \/ \E p \in PathStrs : IndexFile(p, "none", 0)
    \/ \E readOk \in BOOLEAN : LoadOrCreateIndex(readOk)
    \/ Crash
    \/ \E f \in Rewritten, dt \in 1..MtimeTolerance : ModifyFile(f, dt)
    \/ \E f \in Files : DeleteFile(f)
    \/ \E p \in PathStrs : CliRemoveFile(p)

CliSpec == Init /\ [][CliNext]_vars

\* _filename_search called by itself, over scan paths whose files the
\* environment deletes
ScanPathLists == {<<ScanDir>>, <<RootDir>>, <<ScanDir, RootDir>>}
FilenameCaps == {1, 2, 15}

FilenameSearchCall(q, max_results, scan_paths) ==
    /\ OneSearch
    /\ results' = [op |-> "filename_search", query |-> q, k |-> max_results,
                   scan_paths |-> scan_paths,
                   hits |-> FilenameSearch(Chars(q), max_results, scan_paths)]
    /\ UNCHANGED <<fs, pc, index, faiss_file, documents, chunks, doc_seq, committed,
                   batch, last, tasks, staged_paths, staging_file>>

FilenameNext ==
    \/ \E f \in AllFiles : DeleteFile(f)
    \/ \E q \in AgentQueries, max_results \in FilenameCaps, scan_paths \in ScanPathLists :
           FilenameSearchCall(q, max_results, scan_paths)

FilenameSpec == InitOn(AllFiles) /\ [][FilenameNext]_vars

\* the add and index commands of the staging area
StagedNext ==
    \/ \E readOk \in BOOLEAN : LoadOrCreateIndex(readOk)
    \/ Crash
    \/ \E f \in Files : StagePath(f)
    \/ \E order \in UNION {Orders(S) : S \in SUBSET Files} : StartStaged(order)
    \/ \E fault \in Faults, k \in 0..(MaxChunks + 1) : StagedStep(fault, k)
    \/ StagedReturn

StagedSpec == Init /\ [][StagedNext]_vars

\* the staging area on its own, with the files that are turned away on disk too
StagingNext ==
    \/ \E f \in Stageable : StagePath(f)
    \/ \E f \in Deletable : DeleteFile(f)
    \/ \E order \in UNION {Orders(S) : S \in SUBSET Stageable} : GetStagedFiles(order)
    \/ ClearStaging

StagingSpec == InitOn(AllFiles) /\ [][StagingNext]_vars

\* the search_files tool over an indexer that indexes, removes and restarts
ToolNext ==
    \/ \E p \in PathStrs : IndexFile(p, "none", 0)
    \/ \E p \in PathStrs : RemoveFileFromIndex(p)
    \/ \E readOk \in BOOLEAN : LoadOrCreateIndex(readOk)
    \/ Crash
    \/ \E q \in ToolQueries, max_results \in ToolCaps, file_type \in FileTypes :
           HandleSearchFiles(q, max_results, file_type)

ToolSpec == Init /\ [][ToolNext]_vars

\* the text splitter on its own, over the texts and settings of the model
ChunkNext == \E text \in Texts, w \in Windows : SplitContent(text, w[1], w[2])

ChunkSpec == Init /\ [][ChunkNext]_vars

\* ================================================================ claims
FaultPoints == Faults \X (0..(MaxChunks + 1))

\* C1: a call of index_file on a path that has a Document row whose recorded
\* modification time is within 1 second of the file's returns false and leaves
\* the document count, the chunk rows and the vector count as they were: an
\* index_file step that does otherwise is a call on no such path.
C1_SecondCallIsNoOp ==
    [][last'.op = "index_file" =>
         \/ /\ last'.result = "false"
            /\ Cardinality(documents') = Cardinality(documents)
            /\ chunks' = chunks
            /\ Len(index') = Len(index)
         \/ \A p \in PathStrs : Unmodified(p) =>
                \A c \in FaultPoints : ~IndexFile(p, c[1], c[2])]_vars

\* the second call has returned: the only row is FileA's, recorded half a second
\* before the file's present modification time, and the call was skipped
C1_Witness ==
    /\ last = [op |-> "index_file", result |-> "false", cause |-> "skipped"]
    /\ \E d \in documents : /\ documents = {d}
                            /\ d.file_path = FileA
                            /\ fs[FileA].mtime = d.modified_time + 1
    /\ Len(index) = 1

\* C2: with the index loaded, every committed Chunk row's embedding slot is
\* smaller than the vector count of the index in use, whatever index_file,
\* index_directory, save_index, a crash and load_or_create_index did before.
C2_NoChunkWithoutVector ==
    pc = "ready" =>
        \A i \in 1..Len(committed.chunks) :
            committed.chunks[i].embedding_index < Len(index)

\* the paths some search returns
SearchPaths(q, k) == {Search(q, k)[i].file_path : i \in 1..Len(Search(q, k))}
Found == UNION {SearchPaths(q, k) : q \in Queries, k \in 1..MaxK}

\* C3: when remove_file_from_index(p) returns for a path p that index_file(p)
\* gave a Document row, no Document row of p is left, no search returns p, and
\* the vector index is as it was.
C3_RemovedPathIsGone ==
    [][last'.op = "remove_file_from_index" =>
         \A p \in PathStrs : (RowsOf(p) # {} /\ RemoveFileFromIndex(p)) =>
             /\ RowsOf(p)' = {}
             /\ p \notin Found'
             /\ index' = index]_vars

\* the embedding slots of the Chunk rows
Slots(rows) == {rows[i].embedding_index : i \in 1..Len(rows)}

\* C4: no two Chunk rows carry the same embedding slot, and the slots a step
\* assigns are greater than every slot assigned before it.
C4_SlotsUniqueAndIncreasing ==
    [][/\ \A i, j \in 1..Len(chunks') :
            chunks'[i].embedding_index = chunks'[j].embedding_index => i = j
       /\ doc_seq' = doc_seq + 1 =>
            \A i \in 1..Len(chunks') : chunks'[i].document_id = doc_seq' =>
                \A old \in Slots(chunks) \cup Slots(committed.chunks) :
                    chunks'[i].embedding_index > old]_vars

\* the rows an index_file call wrote before its database write failed: the
\* rows the connection holds that are not committed
PendingDocuments == documents \ committed.documents
PendingChunks == {chunks[i] : i \in 1..Len(chunks)} \
                 {committed.chunks[i] : i \in 1..Len(committed.chunks)}

\* C5: the Document and Chunk rows written by an index_file call whose database
\* write failed part-way are never committed by a later call.
C5_FailedWriteNeverCommitted ==
    [][/\ \A d \in PendingDocuments : d \notin committed'.documents
       /\ \A c \in PendingChunks :
            \A i \in 1..Len(committed'.chunks) : committed'.chunks[i] # c]_vars

\* C6: index_file returns true for a newly indexed file and false for a skipped
\* one, and a processing error is signalled by something other than those two.
C6_ErrorDistinctFromSkip ==
    last.op = "index_file" =>
        /\ last.cause = "indexed" => last.result = "true"
        /\ last.cause = "skipped" => last.result = "false"
        /\ last.cause = "error" => last.result \notin {"true", "false"}

\* C7: the errors count of a batch equals the number of its files whose
\* extraction, embedding or storage failed.
C7_ErrorsCountFailures ==
    batch.phase = "returned" => batch.errors = batch.failed

\* C8: a batch that returns has reached every file of the scan directory and
\* counted in processed every file it had to process, failed files included,
\* and indexed + errors <= processed throughout.
C8_BatchReachesEveryFile ==
    /\ batch.indexed + batch.errors <= batch.processed
    /\ batch.phase = "returned" =>
          /\ batch.visited = Len(RGlob(ScanDir))
          /\ batch.processed = batch.due
          /\ batch.op \in SavingOps => batch.processed = Len(RGlob(ScanDir))

\* a batch has returned although its first file failed, with the second indexed
C8_Witness ==
    /\ batch.phase = "returned"
    /\ batch.failed = 1 /\ batch.indexed = 1
    /\ \E d \in documents : documents = {d} /\ d.file_path = FileB

\* a row of p records a modification time 1 second or more from the file's
Stale(p) == RowsOf(p) # {} /\ ~Unmodified(p)

\* the call replaced the row of p: one row, a new id, the file's present mtime
Replaced(p) ==
    /\ last'.result = "true"
    /\ \E d \in RowsOf(p)' : /\ RowsOf(p)' = {d}
                             /\ d.id \notin {o.id : o \in RowsOf(p)}
                             /\ d.modified_time = fs[Resolve(p)].mtime
    /\ Cardinality(documents') = Cardinality(documents)

C10_ChunkCountMatches ==
    \A d \in committed.documents :
        LET rows == SelectSeq(committed.chunks, LAMBDA c : c.document_id = d.id)
        IN  /\ Len(rows) = d.chunk_count
            /\ \A o \in 0..(d.chunk_count - 1) :
                   Cardinality({i \in 1..Len(rows) : rows[i].chunk_index = o}) = 1

\* C11: every Chunk row's document id is the id of an existing Document row,
\* so the number of Chunk rows is the sum of chunk_count over the Document rows.
C11_ChunksBelongToDocuments ==
    /\ \A i \in 1..Len(chunks) : \E d \in documents : d.id = chunks[i].document_id
    /\ \A i \in 1..Len(committed.chunks) :
           \E d \in committed.documents : d.id = committed.chunks[i].document_id

\* the hits of the last call of indexer.search
Hits == results.hits
HitIds == 1..Len(Hits)

\* C12: every result indexer.search returns comes from a Chunk row that carries
\* the hit's slot and belongs to an existing Document row, whose path the
\* result reports: a slot whose rows were removed or superseded gives no result.
C12_NoOrphanedHit ==
    results.op = "search" =>
        \A i \in HitIds :
            \E j \in 1..Len(chunks), d \in documents :
                /\ chunks[j].embedding_index = Hits[i].slot
                /\ chunks[j].document_id = d.id
                /\ d.id = Hits[i].document_id
                /\ d.file_path = Hits[i].file_path

\* FileA was indexed, rewritten and indexed again, so that slot 0 is orphaned
\* and would score highest; the search returned the new version's slot
C12_Witness ==
    /\ results.op = "search" /\ results.query = "qa"
    /\ Len(Hits) = 1 /\ Hits[1].slot = 1 /\ Hits[1].file_path = FileA
    /\ \E j \in 1..Len(chunks) :
           /\ chunks[j].embedding_index = 0
           /\ \A d \in documents : d.id # chunks[j].document_id

\* the best score among the candidates of the vector index that resolve to a document
BestOf(q, k, id) ==
    LET cand == FaissSearch(q, 0..(Len(index) - 1), k)
        mine == {n \in 1..Len(cand) :
                    /\ ChunkBySlot(cand[n]) # <<>>
                    /\ Head(ChunkBySlot(cand[n])).document_id = id}
    IN  {Score(q, index[cand[n] + 1]) : n \in mine}

\* C13: indexer.search(query, k) returns at most k results, at most one per
\* document and that one the document's highest-scoring hit, each with a score
\* at or above similarity_threshold, in descending score order.
C13_SearchResultShape ==
    results.op = "search" =>
        /\ Len(Hits) <= results.k
        /\ \A i, j \in HitIds : i # j => Hits[i].document_id # Hits[j].document_id
        /\ \A i \in HitIds : Hits[i].similarity_score >= SimilarityThreshold
        /\ \A i, j \in HitIds : i < j => Hits[i].similarity_score >= Hits[j].similarity_score
        /\ \A i \in HitIds :
               \A s \in BestOf(results.query, results.k, Hits[i].document_id) :
                   s <= Hits[i].similarity_score

\* both files are indexed, FileB with its two chunks above the threshold: the
\* search for two candidates returned FileB once, by its better chunk
C13_Witness ==
    /\ results.op = "search" /\ results.query = "qb" /\ results.k = MaxK
    /\ Len(index) = MaxVectors
    /\ Len(Hits) = 1 /\ Hits[1].file_path = FileB /\ Hits[1].chunk_index = 0

\* ------------------------------------------------------- the hybrid search
\* what the legs of the last search of the agent found, each leg on its own
AgentCall == results.op = "agent"
Query == Chars(results.query)
SemanticFound ==
    IF "semantic" \in results.legs THEN SemanticLeg(Query, results.k) ELSE <<>>
FilenameFound ==
    IF "filename" \in results.legs
      THEN FilenameSearch(Query, 15, results.scan_paths) ELSE <<>>
ScoresOf(entries, path) ==
    {entries[i].similarity_score :
        i \in {n \in 1..Len(entries) : entries[n].file_path = path}}
Top(scores) == CHOOSE s \in scores : \A t \in scores : s >= t
BothLegs(path) ==
    ScoresOf(SemanticFound, path) # {} /\ ScoresOf(FilenameFound, path) # {}
OnlySemantic(path) ==
    ScoresOf(SemanticFound, path) # {} /\ ScoresOf(FilenameFound, path) = {}
OnlyFilename(path) ==
    ScoresOf(SemanticFound, path) = {} /\ ScoresOf(FilenameFound, path) # {}

\* C14: a path found by both legs has the final score max(semantic leg score
\* + 0.2, filename leg score), a path found by one leg has that leg's score,
\* and a path of both legs ranks above a path of the semantic leg alone whose
\* semantic leg score is lower.
C14_FusedScore ==
    AgentCall =>
        /\ \A i \in HitIds :
               LET p == Hits[i].file_path
                   sem == ScoresOf(SemanticFound, p)
                   fn == ScoresOf(FilenameFound, p)
               IN  /\ BothLegs(p) =>
                          Hits[i].similarity_score = Max(Top(sem) + 200, Top(fn))
                   /\ OnlySemantic(p) => Hits[i].similarity_score = Top(sem)
                   /\ OnlyFilename(p) => Hits[i].similarity_score = Top(fn)
        /\ \A i, j \in HitIds :
               (/\ BothLegs(Hits[i].file_path)
                /\ OnlySemantic(Hits[j].file_path)
                /\ Top(ScoresOf(SemanticFound, Hits[j].file_path))
                      < Top(ScoresOf(SemanticFound, Hits[i].file_path))) => i < j

\* the place of a path in all_results: the order of discovery
Discovered(path) ==
    Position(AllResults(Query, results.scan_paths, results.k), path)

\* C15: the list of the hybrid search holds only entries of final score 0.3 or
\* more, one entry per path at most, in descending score order with equal
\* scores in the order of discovery, and max_search_results entries at most.
C15_FilteredRankedTruncated ==
    AgentCall =>
        /\ \A i \in HitIds : Hits[i].similarity_score >= 300
        /\ \A i, j \in HitIds : i # j => Hits[i].file_path # Hits[j].file_path
        /\ \A i, j \in HitIds : i < j =>
               \/ Hits[i].similarity_score > Hits[j].similarity_score
               \/ /\ Hits[i].similarity_score = Hits[j].similarity_score
                  /\ Discovered(Hits[i].file_path) < Discovered(Hits[j].file_path)
        /\ Len(Hits) <= results.k

\* both files match "txt" by name with score 1.0 and nothing is indexed: the
\* list has FileA before FileB, the order in which the scan found them
C15_Witness ==
    /\ AgentCall /\ results.query = "txt" /\ results.scan_paths = <<ScanDir>>
    /\ Len(Hits) = 2
    /\ Hits[1].file_path = FileA /\ Hits[2].file_path = FileB
    /\ Hits[1].similarity_score = Hits[2].similarity_score

\* the score the filename leg is said to give a file
SaidScore(pattern, f) ==
    IF Contains(Lower(FileName(f)), Lower(pattern)) THEN 1000
    ELSE Max(FuzzyScore(pattern, FileName(f)), KeywordMatchScore(pattern, FileName(f)))

\* C16: the filename leg keeps a scanned file exactly when 1.0 (the query is a
\* substring of its name) or else the larger of the sequence similarity and the
\* keyword overlap is 0.6 or more, and with that score.
C16_FilenameLegScore ==
    (AgentCall /\ "filename" \in results.legs) =>
        \A f \in Files :
            /\ SaidScore(Query, f) >= 600 <=> ScoresOf(FilenameFound, f) # {}
            /\ ScoresOf(FilenameFound, f) \subseteq {SaidScore(Query, f)}

\* C17: the search command answers a whitespace-free query that is a
\* substring of the name of a staged file with that file at score 1.0, also
\* when the file is not indexed.
C17_StagedFileFoundByName ==
    results.op = "cli" =>
        \A f \in staged_paths :
            (/\ Query # <<>> /\ \A n \in 1..Len(Query) : ~IsSpace(Query[n])
             /\ Contains(Lower(FileName(f)), Lower(Query))
             /\ \A d \in documents : Resolve(d.file_path) # f) =>
                \E i \in HitIds : /\ Hits[i].file_path = f
                                  /\ Hits[i].similarity_score = 1000

\* the legs a query is said to run
HasExtension(query) == \E ext \in KnownExtensions : Contains(Lower(query), ext)
SingleToken(query) ==
    query # <<>> /\ \A n \in 1..Len(query) : ~IsSpace(query[n])
SaidLegs(query) ==
    IF HasExtension(query) THEN {"filename"}
    ELSE IF SingleToken(query) THEN {"semantic", "filename"}
    ELSE {"semantic"}

\* C18: a query with a known extension runs the filename leg only, a single
\* whitespace-free token without one runs both legs, every other query runs the
\* semantic leg only; at least one leg runs.
C18_StrategyDecidesLegs ==
    AgentCall => /\ results.legs = SaidLegs(Query)
                 /\ results.legs # {}

\* the one-word query "A" ran both legs
C18_Witness ==
    /\ AgentCall /\ results.query = "A"
    /\ results.legs = {"semantic", "filename"}

\* C19: every result has one label: the combined one exactly when both legs
\* found the path, the semantic one exactly when only the semantic leg did, the
\* filename one exactly when only the filename leg did.
C19_LabelTellsLegs ==
    AgentCall =>
        \A i \in HitIds :
            /\ Hits[i].search_type = "hybrid_combined" <=> BothLegs(Hits[i].file_path)
            /\ Hits[i].search_type = "hybrid_semantic" <=> OnlySemantic(Hits[i].file_path)
            /\ Hits[i].search_type = "filename_fuzzy" <=> OnlyFilename(Hits[i].file_path)

\* --------------------------------------------------- concurrent indexing
\* a coroutine between reading index.ntotal and its commit
Busy(t) == t.at \in {"started", "appended", "stored"}
\* the slots at which index.add put the vectors of a coroutine
OwnSlots(t) == t.first..(t.first + t.added - 1)
\* the Chunk rows a coroutine wrote
RowsWritten(t) ==
    {i \in 1..Len(chunks) : t.document_id # 0 /\ chunks[i].document_id = t.document_id}

\* C20: between the moment a coroutine of index_file reads the vector count
\* and its commit no other coroutine is in that stretch; the Chunk rows of each
\* file carry the slots at which its own vectors were appended, in order, all
\* of them once the call has returned true, and the slots of different files
\* are disjoint.
C20_AppendAndCommitSerialized ==
    tasks # NoTasks =>
        /\ \A p, q \in DOMAIN tasks.co :
               p # q => /\ ~(Busy(tasks.co[p]) /\ Busy(tasks.co[q]))
                        /\ OwnSlots(tasks.co[p]) \cap OwnSlots(tasks.co[q]) = {}
        /\ \A p \in DOMAIN tasks.co :
               LET t == tasks.co[p]
               IN  /\ \A i \in RowsWritten(t) :
                          chunks[i].embedding_index = t.first + chunks[i].chunk_index
                   /\ t.result = "true" =>
                          {chunks[i].embedding_index : i \in RowsWritten(t)} = OwnSlots(t)

\* both coroutines have returned true, FileB's ran first: its rows carry the
\* slots from 0, FileA's row the slot after them
C20_Witness ==
    /\ tasks # NoTasks
    /\ DOMAIN tasks.co = {FileA, FileB}
    /\ \A p \in DOMAIN tasks.co : tasks.co[p].result = "true"
    /\ tasks.co[FileB].first = 0
    /\ tasks.co[FileA].first = NChunks(FileB)
    /\ Len(chunks) = MaxVectors

\* ------------------------------------------------------ rejected files
\* what the claim lists: the reasons for which index_file turns a path away
Rejects(p, fault) ==
    \/ Suffix(p) \notin SupportedExtensions
    \/ SizeMb(p) > MaxFileSizeMb
    \/ ParentNames(p) \cap IgnoredDirectories # {}
    \/ Unmodified(p)
    \/ fault = "extract"
    \/ p \in {FileEmpty, FileBlank}

\* C21: a call of index_file that rejects the file at eligibility, extraction
\* or chunking returns false and leaves the vector index, in memory and on
\* disk, and the metadata store, as the connection sees it and as committed,
\* unchanged: an index_file step that does otherwise is no such call.
C21_RejectionChangesNothing ==
    [][last'.op = "index_file" =>
         \/ /\ last'.result = "false"
            /\ index' = index /\ faiss_file' = faiss_file
            /\ documents' = documents /\ chunks' = chunks /\ doc_seq' = doc_seq
            /\ committed' = committed
         \/ \A p \in PathStrs \cup TurnedAway, c \in FaultPoints :
                Rejects(p, c[1]) => ~IndexFile(p, c[1], c[2])]_vars

\* a call was turned away while the connection held the uncommitted rows of a
\* failed write and no path had a committed row: everything is as it was
C21_Witness ==
    /\ last = [op |-> "index_file", result |-> "false", cause |-> "skipped"]
    /\ PendingDocuments # {} /\ PendingChunks # {}
    /\ committed.documents = {}
    /\ \A p \in PathStrs : ~Unmodified(p)

\* ------------------------------------------------------------- chunking
Ceil(a, b) == (a + b - 1) \div b

\* the chunks put together again: every chunk but the last without its
\* trailing chunk_overlap characters
RECURSIVE Reassembled(_, _)
Reassembled(cs, overlap) ==
    IF cs = <<>> THEN <<>>
    ELSE IF Len(cs) = 1 THEN cs[1]
    ELSE SubSeq(Head(cs), 1, Len(Head(cs)) - overlap) \o Reassembled(Tail(cs), overlap)

\* C22: for a text and a window W with overlap O, 0 <= O < W, the chunker
\* gives no chunk for the empty text, one chunk holding the whole text when
\* len(text) <= W, ceil((len(text) - O) / (W - O)) chunks otherwise, and the
\* chunks without the trailing O characters of every chunk but the last,
\* concatenated, are the text.
C22_ChunkCountAndReassembly ==
    results.op = "split_text" =>
        LET text == results.text
            W == results.chunk_size
            O == results.chunk_overlap
        IN  /\ Len(text) = 0 => Hits = <<>>
            /\ (0 < Len(text) /\ Len(text) <= W) => Hits = <<text>>
            /\ Len(text) > W => Len(Hits) = Ceil(Len(text) - O, W - O)
            /\ Reassembled(Hits, O) = text

\* --------------------------------------------------- the semantic leg
\* the keyword overlap the claim defines, on thousandths
SaidOverlap(query, snippet) ==
    IF Words(query) = {} THEN 0
    ELSE Ratio(Cardinality({w \in Words(query) : w \in Words(snippet)}),
               Cardinality(Words(query)))

\* C23: every hit of the semantic leg is a Chunk row of a Document row of the
\* hit's path and has the score 0.5 x the similarity of the row's vector to the
\* query embedding + 0.3 x the keyword overlap of the query with the row's
\* snippet; the leg has 2 x max_search_results hits at most.
C23_SemanticLegScore ==
    (AgentCall /\ "semantic" \in results.legs) =>
        /\ Len(results.semantic) <= 2 * results.k
        /\ \A i \in 1..Len(results.semantic) :
               \E j \in 1..Len(chunks), d \in documents :
                   /\ d.id = chunks[j].document_id
                   /\ d.file_path = results.semantic[i].file_path
                   /\ chunks[j].embedding_index < Len(index)
                   /\ results.semantic[i].similarity_score =
                          (500 * 10 * Score(EmbedQuery(RefineQuery(Query)),
                                            index[chunks[j].embedding_index + 1])
                           + 300 * SaidOverlap(Query,
                                       ContentSnippet(ChunkText(d.file_path,
                                                                chunks[j].chunk_index))))
                          \div 1000

\* both files are indexed and max_search_results is 1: the leg asked for two
\* candidates and has both, FileA with 0.5 x 0.95 + 0.3 x 1, FileB with
\* 0.5 x 0.75 and no keyword of the query "A"
C23_Witness ==
    /\ AgentCall /\ results.query = "A" /\ results.k = 1
    /\ Len(results.semantic) = 2
    /\ results.semantic[1].file_path = FileA /\ results.semantic[1].similarity_score = 775
    /\ results.semantic[2].file_path = FileB /\ results.semantic[2].similarity_score = 375

\* ------------------------------------------------- the search_files tool
\* the extensions that belong to a file type
TypeSuffixes(file_type) ==
    CASE file_type = "pdf" -> {".pdf"}
      [] file_type = "excel" -> {".xlsx", ".xls", ".csv"}
      [] file_type = "word" -> {".docx", ".doc"}
      [] file_type = "text" -> {".txt", ".md"}
      [] file_type = "csv" -> {".csv"}

\* C24: when search_files is called with a file_type other than "any", every
\* file it returns has an extension of that type.
C24_FileTypeFilters ==
    (results.op = "search_files" /\ results.file_type # "any") =>
        \A i \in HitIds : Suffix(Hits[i].file_path) \in TypeSuffixes(results.file_type)

\* ------------------------------------------------------ the staging area
\* C25: get_staged_files returns the staged paths that exist on disk, each
\* once and no other, and leaves the staging set in memory and in staging.json
\* as it was; after clear_staging both are empty.
C25_StagedFilesAndClear ==
    [][/\ results'.op = "get_staged_files" =>
            /\ {results'.hits[i] : i \in 1..Len(results'.hits)}
                   = {f \in AllFiles : f \in staged_paths /\ fs[f].exists}
            /\ Len(results'.hits) = Cardinality({f \in staged_paths : fs[f].exists})
            /\ staged_paths' = staged_paths /\ staging_file' = staging_file
       /\ (last'.op = "clear_staging" /\ last' # last) =>
            staged_paths' = {} /\ staging_file' = {}]_vars

\* FileA and the large file were staged and the large file deleted:
\* get_staged_files returned FileA alone and both are still staged
C25_Witness ==
    /\ results.op = "get_staged_files" /\ Hits = <<FileA>>
    /\ staged_paths = {FileA, FileBig} /\ staging_file = {FileA, FileBig}
    /\ ~fs[FileBig].exists

\* ------------------------------------------------- persistence of a batch
\* C26: when a batch indexing operation has returned, the vector index on disk
\* holds every slot a committed Chunk row refers to.
C26_BatchPersistsVectors ==
    batch.phase = "returned" =>
        \A i \in 1..Len(committed.chunks) :
            /\ faiss_file.exists
            /\ committed.chunks[i].embedding_index < Len(faiss_file.vecs)

\* C27: the staged indexing flow leaves the staging set, in memory and in
\* staging.json, as it was when the extraction, embedding or storage of one of
\* the staged files failed.
C27_FailedFlowKeepsStaging ==
    [][(/\ batch.op = "staged" /\ batch.phase = "running"
        /\ batch'.phase = "returned" /\ batch.failed > 0) =>
            /\ staged_paths' = staged_paths
            /\ staging_file' = staging_file]_vars

\* ------------------------------------------------- completeness of search
\* the scores of the chunks of a live document whose vectors the index holds,
\* and the best of them (0 when it has none)
LiveScores(q, d) ==
    {Score(q, index[chunks[i].embedding_index + 1]) :
        i \in {n \in 1..Len(chunks) : /\ chunks[n].document_id = d.id
                                      /\ chunks[n].embedding_index < Len(index)}}
BestScore(q, d) == IF LiveScores(q, d) = {} THEN 0 ELSE Top(LiveScores(q, d))

\* C28: indexer.search(query, k) returns every live document that has a chunk
\* at or above similarity_threshold while fewer than k other live documents
\* have a chunk scoring as high or higher (a tie counts against the document,
\* so that no tie decides the matter), whatever else the vector index holds.
C28_LiveDocumentFound ==
    results.op = "search" =>
        \A d \in documents :
            (/\ BestScore(results.query, d) >= SimilarityThreshold
             /\ Cardinality({e \in documents :
                                /\ e # d
                                /\ BestScore(results.query, e) >= BestScore(results.query, d)})
                    < results.k) =>
                \E i \in HitIds : Hits[i].document_id = d.id

\* ------------------------------------------------ the remove-file command
\* C29: the remove-file command on a path with a Document row leaves no
\* Document row of the path and no Chunk row of that document, also when the
\* file was rewritten or deleted after it was indexed.
C29_RemoveFileRemoves ==
    [][last'.op = "remove_file" =>
         \A p \in PathStrs : (RowsOf(Resolve(p)) # {} /\ CliRemoveFile(p)) =>
             /\ RowsOf(Resolve(p))' = {}
             /\ \A d \in RowsOf(Resolve(p)) :
                    \A i \in 1..Len(chunks') : chunks'[i].document_id # d.id]_vars

\* ------------------------------------------------- the filename search alone
\* C30: _filename_search(pattern, max_results) returns at most max_results
\* results, whatever the number of scan paths, and returns them in descending
\* order of score.
C30_FilenameSearchCapped ==
    results.op = "filename_search" =>
        /\ Len(results.hits) <= results.k
        /\ \A i \in 1..Len(results.hits) - 1 :
               results.hits[i].similarity_score >= results.hits[i + 1].similarity_score

====
